---- MODULE Spec2Model ----
(***************************************************************************)
(* Verification model of the 3d-character-rotate scene code:               *)
(*   - utils/glCaps.ts          getSafeAnisotropy                          *)
(*   - pixelStorei patches      (Canvas onCreated, createContextAsync      *)
(*                               override, prototype patch)                *)
(*   - components/Character.tsx Character / CharacterInner                 *)
(*   - components/Stage.tsx     watchdog, OrbitControls limits             *)
(*   - app/character-rotate.tsx drag / double-tap handlers                 *)
(*   - Stage (turntable variant) useFrame yaw damping                      *)
(*   - components/Stage.tsx     makeRadialRoughnessTex                     *)
(*   - getExtension / getParameter patches (Canvas onCreated,              *)
(*                               createContextAsync override)              *)
(*   - components/Stage.tsx     HeroPlatform passes and their draw order   *)
(*   - app/_layout.tsx          patchEXGLPixelStorei retry loop            *)
(* Each subsystem has its own variables and its own specification; the     *)
(* variables of the other subsystems stay parked at fixed values.          *)
(***************************************************************************)
EXTENDS Integers, Sequences, FiniteSets, TLC

VARIABLES
    \* ---- getSafeAnisotropy (utils/glCaps.ts)
    renderer,        \* the argument: a record with .present and with .capabilities
    anisoPc,         \* "ready" before the call, "done" after it
    anisoResult,     \* the returned number, in units of 1/AnisoDen
    \* ---- pixelStorei patches
    ctxConstants,    \* TRUE when the context exposes the UNPACK_* constants
    protoPatched,    \* proto.__exglPixelStoreiPatched
    wrappers,        \* wrappers assigned to ctx.pixelStorei, newest first
    boundBase,       \* what the oldest wrapper's bound original resolves to
    lastCall,        \* the (pname, param) of the last pixelStorei call
    reached,         \* the layers the last call entered, with their arguments
    raised,          \* TRUE when the last call threw to its caller
    \* ---- Stage watchdog (components/Stage.tsx)
    stageMounted,    \* the Stage component is mounted
    controlsCurrent, \* controls.current is the OrbitControls instance (not null)
    controlsEnabled, \* controls.current.enabled
    dragTimer,       \* dragTimer.current: 0 for null, else a timer handle
    timers,          \* the pending setTimeout timers: [id, left] records
    rafQueue,        \* requestAnimationFrame callbacks not yet run, by origin
    subscribed,      \* the AppState 'change' listener is registered
    appState,        \* the last AppState delivered
    notified,        \* the last of onStart / onEnd delivered to the parent
    gestures,        \* handleStart calls so far (the last timer handle given out)
    elapsed,         \* ticks since the last handleStart
    wdFired,         \* the timer of the last handleStart has fired
    wdDisables,      \* times that timer's callback set enabled = false
    wdEnables,       \* times that timer's frame callback set enabled = true
    \* ---- CharacterRotateScreen (app/character-rotate.tsx) and its Stage
    rotationY,       \* useState: the target yaw, in units of 1/YawDen rad
    dragBase,        \* dragBase.current
    autoRotate,      \* useState: auto-rotate enabled
    gestureState,    \* state of the pan gesture handler
    groupYaw,        \* group.current.rotation.y of the Stage
    drags,           \* BEGAN events so far
    frames,          \* frames rendered so far
    baseAtBegin,     \* the target yaw when the last drag began
    lastDx,          \* translationX of the last move event of the last drag
    moved,           \* the last drag has had a move event
    toggled,         \* a double tap has occurred since the last BEGAN
    \* ---- two Stages with the same target, for comparing yaw modulo 2 pi
    yawA,            \* rotation.y of the run started at 2 pi + 0.1
    yawB,            \* rotation.y of the run started at 0.1
    wrapTarget,      \* the rotationY prop of both
    wrapSpeed,       \* the turntableSpeed prop of both
    \* ---- Stage: OrbitControls limits
    cameraLimits,    \* the cameraLimits prop (a field is NotPassed when omitted)
    orbitProps,      \* minDistance .. maxPolarAngle of the OrbitControls
    distance,        \* camera distance from the target, in hundredths
    polar,           \* polar angle, in units of pi / PolarDen
    deltaPhi,        \* sphericalDelta.phi: rotation not yet applied (damping)
    zoomScale,       \* scale: dolly factor not yet applied, in percent
    orbitInputs,     \* rotate and zoom inputs so far
    \* ---- Character / CharacterInner (components/Character.tsx)
    charMounted,     \* the Character component is mounted
    overrideUrl,     \* the overrideUrl prop ("" when not given)
    savedUrl,        \* useState: the stored locator ("" for null)
    storagePc,       \* AsyncStorage.getItem: idle, pending, resolved or rejected
    cache,           \* the useGLTF cache: locator -> none/pending/loaded/failed
    slot,            \* what the avatar slot shows: placeholder, error or a model
    mountedScene,    \* the scene CharacterInner last committed ("" for none)
    posY,            \* gltf.scene.position.y of each cached scene
    modelMinY,       \* lowest Y of each model's geometry, in its own coordinates
    mount,           \* world transform of the group the avatar is mounted in
    worldFresh,      \* a frame has updated the group's matrixWorld
    started,         \* the locators whose load was started, in order
    resolved,        \* the locators whose load has settled, in order
    overrides,       \* changes of the overrideUrl prop so far
    effectRuns,      \* runs of CharacterInner's effect on each cached scene
    \* ---- makeRadialRoughnessTex (components/Stage.tsx)
    texArgs,         \* the arguments (size, centerRough, edgeRough) under test
    texCalls,        \* calls of makeRadialRoughnessTex so far
    texOut,          \* the pixel buffers returned for texArgs, in call order
    texLast,         \* the pixel buffer the last call returned
    \* ---- getExtension / getParameter patches
    glHasGetExtension, \* the context has a getExtension function of its own
    glHasGetParameter, \* the context has a getParameter function of its own
    extWrappers,     \* patches assigned to gl.getExtension, newest first
    paramPatched,    \* gl.getParameter is the createContextAsync override's
    queryCall,       \* the last query: function, argument, native outcome
    queryResult,     \* what the last query gave its caller
    \* ---- HeroPlatform passes (components/Stage.tsx)
    scenePasses,     \* the meshes of HeroPlatform that are mounted
    cameraSide,      \* where the camera is relative to the platform plane
    drawOrder,       \* the sorted render list of the current frame (pass names)
    drawn,           \* how many passes of drawOrder have been drawn
    composeFrames,   \* frames begun so far
    \* ---- patchEXGLPixelStorei (app/_layout.tsx)
    ctors,           \* global.WebGLRenderingContext / WebGL2RenderingContext
    protoMarked,     \* proto.__exglPixelStoreiPatched of each constructor
    protoWraps,      \* times proto.pixelStorei of each constructor was wrapped
    loopPc,          \* each module load: notLoaded, running or stopped
    attempts         \* the attempts counter of each module load's retry loop

anisoVars == <<renderer, anisoPc, anisoResult>>
pixelVars == <<ctxConstants, protoPatched, wrappers, boundBase, lastCall, reached, raised>>
watchdogVars ==
    <<stageMounted, controlsCurrent, controlsEnabled, dragTimer, timers, rafQueue,
      subscribed, appState, notified, gestures, elapsed, wdFired, wdDisables,
      wdEnables>>
dragVars ==
    <<rotationY, dragBase, autoRotate, gestureState, groupYaw, drags, frames,
      baseAtBegin, lastDx, moved, toggled>>
wrapVars == <<yawA, yawB, wrapTarget, wrapSpeed>>
orbitVars == <<cameraLimits, orbitProps, distance, polar, deltaPhi, zoomScale, orbitInputs>>
loadVars ==
    <<charMounted, overrideUrl, savedUrl, storagePc, cache, slot, mountedScene, posY,
      modelMinY, mount, worldFresh, started, resolved, overrides, effectRuns>>
texVars == <<texArgs, texCalls, texOut, texLast>>
queryVars ==
    <<glHasGetExtension, glHasGetParameter, extWrappers, paramPatched, queryCall,
      queryResult>>
composeVars == <<scenePasses, cameraSide, drawOrder, drawn, composeFrames>>
retryVars == <<ctors, protoMarked, protoWraps, loopPc, attempts>>
vars ==
    <<anisoVars, pixelVars, watchdogVars, dragVars, wrapVars, orbitVars, loadVars,
      texVars, queryVars, composeVars, retryVars>>

othersOfAniso == <<pixelVars, watchdogVars, dragVars, wrapVars, orbitVars, loadVars,
      texVars, queryVars, composeVars, retryVars>>
othersOfPixel == <<anisoVars, watchdogVars, dragVars, wrapVars, orbitVars, loadVars,
      texVars, queryVars, composeVars, retryVars>>
othersOfWatchdog == <<anisoVars, pixelVars, dragVars, wrapVars, orbitVars, loadVars,
      texVars, queryVars, composeVars, retryVars>>
othersOfDrag == <<anisoVars, pixelVars, watchdogVars, wrapVars, orbitVars, loadVars,
      texVars, queryVars, composeVars, retryVars>>
othersOfWrap == <<anisoVars, pixelVars, watchdogVars, dragVars, orbitVars, loadVars,
      texVars, queryVars, composeVars, retryVars>>
othersOfOrbit == <<anisoVars, pixelVars, watchdogVars, dragVars, wrapVars, loadVars,
      texVars, queryVars, composeVars, retryVars>>
othersOfLoad == <<anisoVars, pixelVars, watchdogVars, dragVars, wrapVars, orbitVars,
      texVars, queryVars, composeVars, retryVars>>
othersOfTex ==
    <<anisoVars, pixelVars, watchdogVars, dragVars, wrapVars, orbitVars, loadVars,
      queryVars, composeVars, retryVars>>
othersOfQuery ==
    <<anisoVars, pixelVars, watchdogVars, dragVars, wrapVars, orbitVars, loadVars,
      texVars, composeVars, retryVars>>
othersOfCompose ==
    <<anisoVars, pixelVars, watchdogVars, dragVars, wrapVars, orbitVars, loadVars,
      texVars, queryVars, retryVars>>
othersOfRetry ==
    <<anisoVars, pixelVars, watchdogVars, dragVars, wrapVars, orbitVars, loadVars,
      texVars, queryVars, composeVars>>

Max(a, b) == IF a >= b THEN a ELSE b
Min(a, b) == IF a <= b THEN a ELSE b

(***************************************************************************)
(* getSafeAnisotropy                                                       *)
(***************************************************************************)
\* Numbers are fixed-point, AnisoDen units per 1.0, so that 0.5 is a value.
AnisoDen == 2
\* The largest reported maximum that is enumerated.
MaxReported == 10
\* The magnitude of the most negative reported maximum that is enumerated.
MaxNegReported == 2

MaxAnisoCeiling == 8
MinAnisoFloor == 1

Num(k) == [t |-> "number", n |-> k]
\* JavaScript values a capability field or getter can hold or return.
JsValues ==
    {Num(k) : k \in (-MaxNegReported * AnisoDen)..(MaxReported * AnisoDen)}
      \cup {[t |-> s, n |-> 0] : s \in {"undefined", "NaN", "Infinity", "-Infinity", "string"}}

\* typeof caps.getMaxAnisotropy: either not a function, or a function
\* returning ret.
Getters ==
    {[fn |-> FALSE, ret |-> [t |-> "undefined", n |-> 0]]}
      \cup {[fn |-> TRUE, ret |-> v] : v \in JsValues}

Capabilities ==
    {[present |-> TRUE, getMaxAnisotropy |-> g, maxAnisotropy |-> v] :
        g \in Getters, v \in JsValues}

NoCapabilities ==
    [present |-> FALSE,
     getMaxAnisotropy |-> [fn |-> FALSE, ret |-> [t |-> "undefined", n |-> 0]],
     maxAnisotropy |-> [t |-> "undefined", n |-> 0]]

Renderers ==
    {[present |-> FALSE, capabilities |-> NoCapabilities]}
      \cup {[present |-> TRUE, capabilities |-> c] : c \in Capabilities \cup {NoCapabilities}}

\* typeof v === 'number' (NaN and the infinities are numbers in JavaScript)
IsTypeNumber(v) == v.t \in {"number", "NaN", "Infinity", "-Infinity"}
\* isFinite(v) for a value of type number
IsFiniteNum(v) == v.t = "number"

\* let max: the value read from the capabilities (lines 6-12)
ReadMax(caps) ==
    IF caps.getMaxAnisotropy.fn
    THEN caps.getMaxAnisotropy.ret
    ELSE IF IsTypeNumber(caps.maxAnisotropy)
         THEN caps.maxAnisotropy
         ELSE [t |-> "undefined", n |-> 0]

\* const value = typeof max === 'number' && isFinite(max) && max > 0 ? max : 1
SafeValue(max) ==
    IF IsTypeNumber(max) /\ IsFiniteNum(max) /\ max.n > 0
    THEN max.n
    ELSE MinAnisoFloor * AnisoDen

\* Math.max(1, Math.min(8, value))
ClampAnisoNoCeiling(value) == Max(MinAnisoFloor * AnisoDen, value)

ClampAniso(value) ==
    Max(MinAnisoFloor * AnisoDen, Min(MaxAnisoCeiling * AnisoDen, value))

getSafeAnisotropy(r) ==
    IF ~r.present \/ ~r.capabilities.present
    THEN MinAnisoFloor * AnisoDen
    ELSE ClampAniso(SafeValue(ReadMax(r.capabilities)))

AnisoInit ==
    /\ renderer \in Renderers
    /\ anisoPc = "ready"
    /\ anisoResult = 0

AnisoPark ==
    /\ renderer = [present |-> FALSE, capabilities |-> NoCapabilities]
    /\ anisoPc = "parked"
    /\ anisoResult = 0

CallGetSafeAnisotropy ==
    /\ anisoPc = "ready"
    /\ anisoResult' = getSafeAnisotropy(renderer)
    /\ anisoPc' = "done"
    /\ UNCHANGED renderer
    /\ UNCHANGED othersOfAniso

(***************************************************************************)
(* pixelStorei patches                                                     *)
(***************************************************************************)
UNPACK_FLIP_Y_WEBGL == 37440                  \* 0x9240
UNPACK_PREMULTIPLY_ALPHA_WEBGL == 37441       \* 0x9241
UNPACK_COLORSPACE_CONVERSION_WEBGL == 37443   \* 0x9243
UNPACK_ROW_LENGTH == 3314                     \* 0x0cf2
UNPACK_SKIP_ROWS == 3315                      \* 0x0cf3
UNPACK_SKIP_PIXELS == 3316                    \* 0x0cf4
UNPACK_ALIGNMENT == 3317                      \* 0x0cf5, a supported parameter
PACK_ALIGNMENT == 3333                        \* 0x0d05, a supported parameter

Pnames ==
    {UNPACK_FLIP_Y_WEBGL, UNPACK_PREMULTIPLY_ALPHA_WEBGL,
     UNPACK_COLORSPACE_CONVERSION_WEBGL, UNPACK_ROW_LENGTH, UNPACK_SKIP_ROWS,
     UNPACK_SKIP_PIXELS, UNPACK_ALIGNMENT, PACK_ALIGNMENT}

\* The largest param value enumerated for a call.
MaxParam == 2
Params == 0..MaxParam

\* The most createContextAsync overrides that wrap one context.
MaxOverrides == 2

\* ctx.NAME ?? fallback : the context's own constant when it exposes one
\* (a WebGL constant has the standard value), else the numeric fallback.
CtxConst(exposed, standard, fallback) == IF exposed THEN standard ELSE fallback

\* new Set([P_UNPACK_FLIP_Y, ...]) of the Canvas onCreated patch
CanvasUnsupportedNoFlipY(exposed) ==
    {CtxConst(exposed, UNPACK_PREMULTIPLY_ALPHA_WEBGL, 37441),
     CtxConst(exposed, UNPACK_COLORSPACE_CONVERSION_WEBGL, 37443),
     CtxConst(exposed, UNPACK_ROW_LENGTH, 3314),
     CtxConst(exposed, UNPACK_SKIP_ROWS, 3315),
     CtxConst(exposed, UNPACK_SKIP_PIXELS, 3316)}

CanvasUnsupported(exposed) ==
    {CtxConst(exposed, UNPACK_FLIP_Y_WEBGL, 37440),
     CtxConst(exposed, UNPACK_PREMULTIPLY_ALPHA_WEBGL, 37441),
     CtxConst(exposed, UNPACK_COLORSPACE_CONVERSION_WEBGL, 37443),
     CtxConst(exposed, UNPACK_ROW_LENGTH, 3314),
     CtxConst(exposed, UNPACK_SKIP_ROWS, 3315),
     CtxConst(exposed, UNPACK_SKIP_PIXELS, 3316)}

\* pname === 0x9243 || pname === 0x9241 of the createContextAsync override
OverrideUnsupported == {37443, 37441}

\* const UNSUPPORTED = new Set([0x9243, 0x9241]) of the prototype patch
ProtoUnsupported == {37443, 37441}

Variants == {"canvas", "override", "proto"}

\* The unsupported set of a patch variant.
Unsupported(v, exposed) ==
    CASE v = "canvas" -> CanvasUnsupported(exposed)
      [] v = "override" -> OverrideUnsupported
      [] v = "proto" -> ProtoUnsupported

\* The Canvas patch wraps the forwarded call in try/catch; the other two
\* return the original's result and let its exception through.
Catches(v) == v = "canvas"

EntryDropsParam(layer, pname, param) == [layer |-> layer, pname |-> pname, param |-> 0]

Entry(layer, pname, param) == [layer |-> layer, pname |-> pname, param |-> param]

\* The result of calling the function made of the layers chain (outermost
\* first) on top of the native pixelStorei: the layers entered with their
\* arguments, and whether the call threw.
RECURSIVE RunChain(_, _, _, _, _)
RunChain(chain, exposed, pname, param, nativeThrows) ==
    IF chain = <<>>
    THEN [reached |-> <<Entry("native", pname, param)>>, raised |-> nativeThrows]
    ELSE LET v == Head(chain)
             here == Entry(v, pname, param)
         IN IF pname \in Unsupported(v, exposed)
            THEN [reached |-> <<here>>, raised |-> FALSE]
            ELSE LET r == RunChain(Tail(chain), exposed, pname, param, nativeThrows)
                 IN [reached |-> <<here>> \o r.reached,
                     raised |-> r.raised /\ ~Catches(v)]

\* What ctx.pixelStorei resolves to at a call: the context's own wrappers,
\* then whatever the oldest of them bound; with no own wrapper the lookup
\* goes to the prototype.
EffectiveChain ==
    IF wrappers = <<>>
    THEN IF protoPatched THEN <<"proto">> ELSE <<>>
    ELSE wrappers \o (IF boundBase = "proto" THEN <<"proto">> ELSE <<>>)

NoCall == [pname |-> 0, param |-> 0]

PixelInit ==
    /\ ctxConstants \in BOOLEAN
    /\ protoPatched = FALSE
    /\ wrappers = <<>>
    /\ boundBase = "native"
    /\ lastCall = NoCall
    /\ reached = <<>>
    /\ raised = FALSE

PixelPark ==
    /\ ctxConstants = FALSE
    /\ protoPatched = FALSE
    /\ wrappers = <<>>
    /\ boundBase = "parked"
    /\ lastCall = NoCall
    /\ reached = <<>>
    /\ raised = FALSE

\* gl.pixelStorei.bind(gl): the function the lookup finds now.
BindCurrent ==
    IF wrappers = <<>>
    THEN IF protoPatched THEN "proto" ELSE "native"
    ELSE boundBase

\* tryPatchOnce on a constructor whose prototype is not yet marked.
PatchPrototype ==
    /\ ~protoPatched
    /\ protoPatched' = TRUE
    /\ UNCHANGED <<ctxConstants, wrappers, boundBase, lastCall, reached, raised>>
    /\ UNCHANGED othersOfPixel

\* GLView.prototype.createContextAsync override: runs when the context is
\* created, before the Canvas hands it to onCreated.
OverrideCreateContext ==
    /\ \A i \in 1..Len(wrappers) : wrappers[i] = "override"
    /\ Len(wrappers) < MaxOverrides
    /\ boundBase' = BindCurrent
    /\ wrappers' = <<"override">> \o wrappers
    /\ UNCHANGED <<ctxConstants, protoPatched, lastCall, reached, raised>>
    /\ UNCHANGED othersOfPixel

\* Canvas onCreated of CharacterRotate: once per context.
CanvasOnCreated ==
    /\ \A i \in 1..Len(wrappers) : wrappers[i] # "canvas"
    /\ boundBase' = BindCurrent
    /\ wrappers' = <<"canvas">> \o wrappers
    /\ UNCHANGED <<ctxConstants, protoPatched, lastCall, reached, raised>>
    /\ UNCHANGED othersOfPixel

\* A caller (three.js texture upload) calls ctx.pixelStorei(pname, param).
CallPixelStorei ==
    \E pname \in Pnames, param \in Params, nativeThrows \in BOOLEAN :
        LET r == RunChain(EffectiveChain, ctxConstants, pname, param, nativeThrows)
        IN /\ lastCall' = [pname |-> pname, param |-> param]
           /\ reached' = r.reached
           /\ raised' = r.raised
           /\ UNCHANGED <<ctxConstants, protoPatched, wrappers, boundBase>>
           /\ UNCHANGED othersOfPixel

(***************************************************************************)
(* Stage: watchdog that unsticks the OrbitControls                         *)
(***************************************************************************)
\* setTimeout(unstickControls, 2500)
WatchdogMs == 2500
\* Length of one clock tick of the model, in milliseconds.
TickMs == 500
WatchdogTicks == WatchdogMs \div TickMs

\* The most handleStart calls of one run.
MaxGestures == 3
\* The most animation-frame callbacks waiting at one time.
MaxRaf == 3

AppStates == {"active", "inactive", "background"}

WatchdogInit ==
    /\ stageMounted = TRUE
    /\ controlsCurrent = TRUE
    /\ controlsEnabled = TRUE
    /\ dragTimer = 0
    /\ timers = {}
    /\ rafQueue = <<>>
    /\ subscribed = TRUE
    /\ appState = "active"
    /\ notified = "none"
    /\ gestures = 0
    /\ elapsed = 0
    /\ wdFired = FALSE
    /\ wdDisables = 0
    /\ wdEnables = 0

WatchdogPark ==
    /\ stageMounted = FALSE
    /\ controlsCurrent = FALSE
    /\ controlsEnabled = FALSE
    /\ dragTimer = 0
    /\ timers = {}
    /\ rafQueue = <<>>
    /\ subscribed = FALSE
    /\ appState = "parked"
    /\ notified = "none"
    /\ gestures = 0
    /\ elapsed = 0
    /\ wdFired = FALSE
    /\ wdDisables = 0
    /\ wdEnables = 0

\* clearTimeout(h): the timer with handle h no longer fires.
ClearTimeoutKeeps(ts, h) == ts

ClearTimeout(ts, h) == {t \in ts : t.id # h}

\* unstickControls, called from origin (a timer handle, or 0 for the
\* AppState listener): the new values of enabled and of the frame queue.
UnstickEnabledKept == controlsEnabled

UnstickEnabled == IF controlsCurrent THEN FALSE ELSE controlsEnabled
UnstickQueueNoFrame(origin) == rafQueue

UnstickQueue(origin) == IF controlsCurrent THEN Append(rafQueue, origin) ELSE rafQueue

\* if (dragTimer.current) clearTimeout(dragTimer.current);
\* dragTimer.current = setTimeout(unstickControls, 2500)   (handle new)
RearmKeepsOld(ts, old, new) == ts \cup {[id |-> new, left |-> WatchdogTicks]}

Rearm(ts, old, new) ==
    ClearTimeout(ts, old) \cup {[id |-> new, left |-> WatchdogTicks]}

\* controls.current once OrbitControls is unmounted: React sets the ref to
\* null.
ControlsRefKept(c) == c

ControlsRefOnUnmount(c) == FALSE

\* OrbitControls dispatches 'start'.
HandleStart ==
    /\ stageMounted
    /\ gestures < MaxGestures
    /\ gestures' = gestures + 1
    /\ timers' = Rearm(timers, dragTimer, gestures + 1)
    /\ dragTimer' = gestures + 1
    /\ notified' = "start"
    /\ elapsed' = 0
    /\ wdFired' = FALSE
    /\ wdDisables' = 0
    /\ wdEnables' = 0
    /\ UNCHANGED <<stageMounted, controlsCurrent, controlsEnabled, rafQueue,
                   subscribed, appState>>
    /\ UNCHANGED othersOfWatchdog

\* OrbitControls dispatches 'end'.
HandleEnd ==
    /\ stageMounted
    /\ gestures > 0
    /\ IF dragTimer # 0
       THEN /\ timers' = ClearTimeout(timers, dragTimer)
            /\ dragTimer' = 0
       ELSE UNCHANGED <<timers, dragTimer>>
    /\ notified' = "end"
    /\ UNCHANGED <<stageMounted, controlsCurrent, controlsEnabled, rafQueue,
                   subscribed, appState, gestures, elapsed, wdFired, wdDisables,
                   wdEnables>>
    /\ UNCHANGED othersOfWatchdog

\* A pending timer reaches its deadline and runs unstickControls.
TimerFire ==
    \E t \in timers :
        /\ t.left = 0
        /\ timers' = timers \ {t}
        /\ controlsEnabled' = UnstickEnabled
        /\ rafQueue' = UnstickQueue(t.id)
        /\ IF t.id = gestures
           THEN /\ wdFired' = TRUE
                /\ wdDisables' = IF controlsCurrent THEN wdDisables + 1 ELSE wdDisables
           ELSE UNCHANGED <<wdFired, wdDisables>>
        /\ UNCHANGED <<stageMounted, controlsCurrent, dragTimer, subscribed, appState,
                       notified, gestures, elapsed, wdEnables>>
        /\ UNCHANGED othersOfWatchdog

\* The AppState listener of the mount effect.
AppStateChange ==
    \E state \in AppStates :
        /\ subscribed
        /\ state # appState
        /\ Len(rafQueue) < MaxRaf
        /\ appState' = state
        /\ IF state # "active"
           THEN /\ controlsEnabled' = UnstickEnabled
                /\ rafQueue' = UnstickQueue(0)
           ELSE UNCHANGED <<controlsEnabled, rafQueue>>
        /\ UNCHANGED <<stageMounted, controlsCurrent, dragTimer, timers, subscribed,
                       notified, gestures, elapsed, wdFired, wdDisables, wdEnables>>
        /\ UNCHANGED othersOfWatchdog

\* Number of entries of q equal to x.
RECURSIVE CountIn(_, _)
CountIn(q, x) ==
    IF q = <<>> THEN 0 ELSE (IF Head(q) = x THEN 1 ELSE 0) + CountIn(Tail(q), x)

\* enabled after a frame callback of unstickControls:
\* if (controls.current) { controls.current.enabled = true; update() }
FrameEnabledKept == controlsEnabled

FrameEnabled == IF controlsCurrent THEN TRUE ELSE controlsEnabled

\* The next animation frame runs every callback requested before it.
AnimationFrame ==
    /\ rafQueue # <<>>
    /\ rafQueue' = <<>>
    /\ controlsEnabled' = FrameEnabled
    /\ wdEnables' = IF controlsCurrent /\ gestures > 0
                    THEN wdEnables + CountIn(rafQueue, gestures)
                    ELSE wdEnables
    /\ UNCHANGED <<stageMounted, controlsCurrent, dragTimer, timers, subscribed,
                   appState, notified, gestures, elapsed, wdFired, wdDisables>>
    /\ UNCHANGED othersOfWatchdog

\* The Stage unmounts: the ref is detached and the effect cleanup runs.
Unmount ==
    /\ stageMounted
    /\ stageMounted' = FALSE
    /\ controlsCurrent' = ControlsRefOnUnmount(controlsCurrent)
    /\ subscribed' = FALSE
    /\ timers' = IF dragTimer # 0 THEN ClearTimeout(timers, dragTimer) ELSE timers
    /\ UNCHANGED <<controlsEnabled, dragTimer, rafQueue, appState, notified, gestures,
                   elapsed, wdFired, wdDisables, wdEnables>>
    /\ UNCHANGED othersOfWatchdog

\* TickMs pass; a timer that is due fires before more time passes.
Tick ==
    /\ \A t \in timers : t.left > 0
    /\ gestures > 0
    /\ elapsed <= WatchdogTicks
    /\ elapsed' = elapsed + 1
    /\ timers' = {[id |-> t.id, left |-> t.left - 1] : t \in timers}
    /\ UNCHANGED <<stageMounted, controlsCurrent, controlsEnabled, dragTimer, rafQueue,
                   subscribed, appState, notified, gestures, wdFired, wdDisables,
                   wdEnables>>
    /\ UNCHANGED othersOfWatchdog

(***************************************************************************)
(* CharacterRotateScreen: drag and double-tap handlers; Stage: useFrame    *)
(***************************************************************************)
\* setRotationY(dragBase.current + dx / 150)
Sensitivity == 150
\* Yaw is fixed-point: YawDen units per radian, a multiple of Sensitivity so
\* that dx / 150 is exact for an integer dx.
YawDen == 20 * Sensitivity
\* current + (rotationY - current) * 0.15
DampPercent == 15
\* autoRotate ? 0.003 : 0, in thousandths of a radian
TurntableMilli == 3
TwoPi == (6283 * YawDen) \div 1000
Tenth == YawDen \div 10

\* The most drags (BEGAN events) of one run.
MaxDrags == 2
\* The most frames of one run.
MaxFrames == 2
\* The largest |translationX| of a move event, in steps of DxStep pixels.
MaxDxSteps == 2
DxStep == 75
DxSet == {k * DxStep : k \in (-MaxDxSteps)..MaxDxSteps}

\* dx / 150
DragDeltaWrongSensitivity(dx) == (dx * YawDen) \div 100

DragDelta(dx) == (dx * YawDen) \div Sensitivity

\* useMemo(() => (autoRotate ? 0.003 : 0), [autoRotate])
turntable(auto) == IF auto THEN (TurntableMilli * YawDen) \div 1000 ELSE 0

\* (rotationY - current) * 0.15, rounded toward zero
DampOvershoots(d) ==
    IF d >= 0 THEN (d * (100 + DampPercent)) \div 100 ELSE -(((-d) * (100 + DampPercent)) \div 100)

Damp(d) ==
    IF d >= 0 THEN (d * DampPercent) \div 100 ELSE -(((-d) * DampPercent) \div 100)

\* The useFrame callback of the Stage: the new group.current.rotation.y.
FrameYaw(current, target, turntableSpeed) ==
    LET followed == current + Damp(target - current)
    IN IF turntableSpeed # 0 THEN followed + turntableSpeed ELSE followed

\* setAutoRotate(false) of the BEGAN branch
AutoRotateKept(v) == v

AutoRotateOnBegan(v) == FALSE

\* The handler states in which no pan is in progress.
Idle == {"UNDETERMINED", "END", "CANCELLED", "FAILED"}

DragInit ==
    /\ rotationY = 0
    /\ dragBase = 0
    /\ autoRotate = TRUE
    /\ gestureState = "UNDETERMINED"
    /\ groupYaw = 0
    /\ drags = 0
    /\ frames = 0
    /\ baseAtBegin = 0
    /\ lastDx = 0
    /\ moved = FALSE
    /\ toggled = FALSE

DragPark ==
    /\ rotationY = 0
    /\ dragBase = 0
    /\ autoRotate = FALSE
    /\ gestureState = "parked"
    /\ groupYaw = 0
    /\ drags = 0
    /\ frames = 0
    /\ baseAtBegin = 0
    /\ lastDx = 0
    /\ moved = FALSE
    /\ toggled = FALSE

\* onHandlerStateChange with state BEGAN
StateBegan ==
    /\ gestureState \in Idle
    /\ drags < MaxDrags
    /\ gestureState' = "BEGAN"
    /\ dragBase' = rotationY
    /\ autoRotate' = AutoRotateOnBegan(autoRotate)
    /\ drags' = drags + 1
    /\ baseAtBegin' = rotationY
    /\ lastDx' = 0
    /\ moved' = FALSE
    /\ toggled' = FALSE
    /\ UNCHANGED <<rotationY, groupYaw, frames>>
    /\ UNCHANGED othersOfDrag

\* onHandlerStateChange with state ACTIVE: neither branch is taken
StateActive ==
    /\ gestureState = "BEGAN"
    /\ gestureState' = "ACTIVE"
    /\ UNCHANGED <<rotationY, dragBase, autoRotate, groupYaw, drags, frames,
                   baseAtBegin, lastDx, moved, toggled>>
    /\ UNCHANGED othersOfDrag

\* onGestureEvent: a move of the active pan
GestureEvent ==
    \E dx \in DxSet :
        /\ gestureState = "ACTIVE"
        /\ rotationY' = dragBase + DragDelta(dx)
        /\ lastDx' = dx
        /\ moved' = TRUE
        /\ UNCHANGED <<dragBase, autoRotate, gestureState, groupYaw, drags, frames,
                       baseAtBegin, toggled>>
        /\ UNCHANGED othersOfDrag

\* onHandlerStateChange with state END or CANCELLED
StateEnd ==
    /\ gestureState \in {"BEGAN", "ACTIVE"}
    /\ gestureState' \in {"END", "CANCELLED"}
    /\ dragBase' = rotationY
    /\ UNCHANGED <<rotationY, autoRotate, groupYaw, drags, frames, baseAtBegin,
                   lastDx, moved, toggled>>
    /\ UNCHANGED othersOfDrag

\* onHandlerStateChange with state FAILED: neither branch is taken
StateFailed ==
    /\ gestureState = "BEGAN"
    /\ gestureState' = "FAILED"
    /\ UNCHANGED <<rotationY, dragBase, autoRotate, groupYaw, drags, frames,
                   baseAtBegin, lastDx, moved, toggled>>
    /\ UNCHANGED othersOfDrag

\* onDoubleTap
DoubleTap ==
    /\ autoRotate' = ~autoRotate
    /\ toggled' = TRUE
    /\ UNCHANGED <<rotationY, dragBase, gestureState, groupYaw, drags, frames,
                   baseAtBegin, lastDx, moved>>
    /\ UNCHANGED othersOfDrag

\* One frame of the Stage the screen renders.
Frame ==
    /\ frames < MaxFrames
    /\ frames' = frames + 1
    /\ groupYaw' = FrameYaw(groupYaw, rotationY, turntable(autoRotate))
    /\ UNCHANGED <<rotationY, dragBase, autoRotate, gestureState, drags, baseAtBegin,
                   lastDx, moved, toggled>>
    /\ UNCHANGED othersOfDrag

(***************************************************************************)
(* Two Stages that differ by one turn                                      *)
(***************************************************************************)
\* The most target yaws tried, in steps of a tenth of a radian.
MaxTargetSteps == 3
WrapTargets == {0, TwoPi + Tenth} \cup {k * Tenth : k \in (-MaxTargetSteps)..MaxTargetSteps}

WrapInit ==
    /\ yawA = TwoPi + Tenth
    /\ yawB = Tenth
    /\ wrapTarget \in WrapTargets
    /\ wrapSpeed \in {turntable(TRUE), turntable(FALSE)}

WrapPark ==
    /\ yawA = 0
    /\ yawB = 0
    /\ wrapTarget = 0
    /\ wrapSpeed = -1

\* The same frame in both Stages.
WrapFrame ==
    /\ yawA' = FrameYaw(yawA, wrapTarget, wrapSpeed)
    /\ yawB' = FrameYaw(yawB, wrapTarget, wrapSpeed)
    /\ UNCHANGED <<wrapTarget, wrapSpeed>>
    /\ UNCHANGED othersOfWrap

(***************************************************************************)
(* Stage: OrbitControls with distance and polar-angle limits               *)
(***************************************************************************)
\* Polar angles are fixed-point: PolarDen units per pi.
PolarDen == 1000
\* minDistance = 1.5, maxDistance = 6 (hundredths)
DefaultMinDistance == 150
DefaultMaxDistance == 600
\* minPolar = Math.PI * 0.35, maxPolar = Math.PI * 0.95 (thousandths of pi)
DefaultMinPolarMilli == 350
DefaultMaxPolarMilli == 950
\* dampingFactor={0.08}
DampingPercent == 8
\* camera.position.set(0, 1.65, 2.2) seen from the target (0, 1, 0):
\* distance sqrt(0.65^2 + 2.2^2) = 2.29, polar angle acos(0.65 / 2.29) = 0.409 pi
InitialDistance == 229
InitialPolarMilli == 409
\* The margin Spherical.makeSafe keeps from the poles (1e-6 rad in three.js;
\* one unit here).
SafeEps == 1
\* The OrbitControls default for a limit that is not passed to it.
Unlimited == 1000000

\* A field of cameraLimits that the caller left out.
NotPassed == -1

\* The most rotate and zoom inputs of one run.
MaxOrbitInputs == 2
\* A rotate input of any magnitude: up to MaxRotateTurns half turns.
MaxRotateTurns == 2
RotateInputs == {-MaxRotateTurns * PolarDen, -40, 40, MaxRotateTurns * PolarDen}
\* A dolly factor of any magnitude, in percent.
MaxZoomPercent == 5000
ZoomInputs == {1, 90, 110, MaxZoomPercent}

CameraLimitsValues ==
    [minDistance : {NotPassed, 400},
     maxDistance : {NotPassed, 300},
     minPolar : {NotPassed, 600, PolarDen},
     maxPolar : {NotPassed, 0, 500}]

\* const { minDistance = 1.5, maxDistance = 6, minPolar = .., maxPolar = .. }
\*   = cameraLimits || {}
Default(v, d) == IF v = NotPassed THEN d ELSE v
EffectiveLimits(limits) ==
    [minDistance |-> Default(limits.minDistance, DefaultMinDistance),
     maxDistance |-> Default(limits.maxDistance, DefaultMaxDistance),
     minPolar |-> Default(limits.minPolar, (DefaultMinPolarMilli * PolarDen) \div 1000),
     maxPolar |-> Default(limits.maxPolar, (DefaultMaxPolarMilli * PolarDen) \div 1000)]

\* minDistance={minDistance} maxDistance={maxDistance}
\* minPolarAngle={minPolar} maxPolarAngle={maxPolar}
ControlsPropsNoMaxDistance(e) ==
    [minDistance |-> e.minDistance,
     maxDistance |-> Unlimited,
     minPolarAngle |-> e.minPolar,
     maxPolarAngle |-> e.maxPolar]

ControlsProps(e) ==
    [minDistance |-> e.minDistance,
     maxDistance |-> e.maxDistance,
     minPolarAngle |-> e.minPolar,
     maxPolarAngle |-> e.maxPolar]

\* x * percent / 100, rounded toward zero
Percent(x, percent) ==
    IF x >= 0 THEN (x * percent) \div 100 ELSE -(((-x) * percent) \div 100)

\* OrbitControls.update: phi = max(minPolarAngle, min(maxPolarAngle, phi)),
\* then spherical.makeSafe()
ClampPolar(props, phi) ==
    LET limited == Max(props.minPolarAngle, Min(props.maxPolarAngle, phi))
    IN Max(SafeEps, Min(PolarDen - SafeEps, limited))

\* OrbitControls.update: radius = max(minDistance, min(maxDistance, radius))
ClampDistance(props, radius) ==
    Max(props.minDistance, Min(props.maxDistance, radius))

OrbitInit ==
    /\ cameraLimits \in CameraLimitsValues
    /\ orbitProps = ControlsProps(EffectiveLimits(cameraLimits))
    \* the mount effect: controls.current.target.set(0, 1, 0); update()
    /\ distance = ClampDistance(orbitProps, InitialDistance)
    /\ polar = ClampPolar(orbitProps, (InitialPolarMilli * PolarDen) \div 1000)
    /\ deltaPhi = 0
    /\ zoomScale = 100
    /\ orbitInputs = 0

OrbitPark ==
    /\ cameraLimits = [minDistance |-> NotPassed, maxDistance |-> NotPassed,
                       minPolar |-> NotPassed, maxPolar |-> NotPassed]
    /\ orbitProps = [minDistance |-> 0, maxDistance |-> 0,
                     minPolarAngle |-> 0, maxPolarAngle |-> 0]
    /\ distance = 0
    /\ polar = 0
    /\ deltaPhi = 0
    /\ zoomScale = 0
    /\ orbitInputs = 0

\* One-finger drag (touches ONE: ROTATE): the vertical part of the rotation.
RotateInput ==
    \E d \in RotateInputs :
        /\ orbitInputs < MaxOrbitInputs
        /\ orbitInputs' = orbitInputs + 1
        /\ deltaPhi' = deltaPhi + d
        /\ UNCHANGED <<cameraLimits, orbitProps, distance, polar, zoomScale>>
        /\ UNCHANGED othersOfOrbit

\* Two-finger pinch (touches TWO: DOLLY).
ZoomInput ==
    \E z \in ZoomInputs :
        /\ orbitInputs < MaxOrbitInputs
        /\ Percent(zoomScale, z) <= MaxZoomPercent
        /\ orbitInputs' = orbitInputs + 1
        /\ zoomScale' = Max(1, Percent(zoomScale, z))
        /\ UNCHANGED <<cameraLimits, orbitProps, distance, polar, deltaPhi>>
        /\ UNCHANGED othersOfOrbit

\* OrbitControls.update, once per frame (enableDamping).
ControlsUpdate ==
    /\ deltaPhi # 0 \/ zoomScale # 100
    /\ polar' = ClampPolar(orbitProps, polar + Percent(deltaPhi, DampingPercent))
    /\ distance' = ClampDistance(orbitProps, Percent(distance, zoomScale))
    /\ deltaPhi' = Percent(deltaPhi, 100 - DampingPercent)
    /\ zoomScale' = 100
    /\ UNCHANGED <<cameraLimits, orbitProps, orbitInputs>>
    /\ UNCHANGED othersOfOrbit

(***************************************************************************)
(* Character: locator choice, model load, vertical normalization           *)
(***************************************************************************)
\* 'https://models.readyplayer.me/689b9e04c911aabc2e9c587f.glb'
FALLBACK_GLB == "fallback.glb"
Locators == {FALLBACK_GLB, "stored.glb", "override.glb"}
\* null, undefined and '' are all falsy in  a || b || c
NoUrl == ""

\* Lengths are fixed-point: LenDen units per scene unit (one unit = 1e-4).
LenDen == 10000
\* Character({ overrideUrl, scale = 0.9 }), in tenths
CharacterScaleTenths == 9
\* The most changes of the overrideUrl prop of one run.
MaxOverrideChanges == 2
\* The lowest Y of a model is up to MaxMinYTenths tenths below or above 0.
MaxMinYTenths == 5
MinYs == {(-MaxMinYTenths * LenDen) \div 10, (2 * LenDen) \div 10}

\* The group the avatar is mounted in: its world offset, its world scale
\* (tenths) and the world Y of the platform's local origin.
\*   Stage.tsx: <group position={[0, characterYOffset, 0]}> in the stage
\*     group at the origin; characterYOffset = 0 by default
\*   turntable Stage: <group position={[0, 0.1, 0]} scale={[0.9, 0.9, 0.9]}>
\*     in <group position={[0, -0.5, 0]}>
StageOffsetTenths == 2
Mounts ==
    {[offset |-> 0, scale10 |-> 10, platformY |-> 0],
     [offset |-> (StageOffsetTenths * LenDen) \div 10, scale10 |-> 10, platformY |-> 0],
     [offset |-> (-5 * LenDen) \div 10 + (1 * LenDen) \div 10, scale10 |-> 9,
      platformY |-> (-5 * LenDen) \div 10]}
IdentityMount == [offset |-> 0, scale10 |-> 10, platformY |-> 0]

\* a || b
OrElse(a, b) == IF a # NoUrl THEN a ELSE b

\* useMemo(() => overrideUrl || savedUrl || FALLBACK_GLB, ..)
finalUrlSavedFirst(ov, saved) == OrElse(saved, OrElse(ov, FALLBACK_GLB))

finalUrl(ov, saved) == OrElse(ov, OrElse(saved, FALLBACK_GLB))

\* useGLTF(url) starts the load of a locator it has not seen.
StartIfNone(c, u) == IF c[u] = "none" THEN [c EXCEPT ![u] = "pending"] ELSE c

\* What <Suspense><CharacterInner url={u}/></Suspense> shows for the cache c:
\* the scene once loaded, the fallback mesh while pending, and the load
\* error thrown out of Character when the load failed.
ShowWhilePending(u, c) ==
    CASE c[u] \in {"loaded", "pending"} -> u
      [] c[u] = "failed" -> "error"
      [] OTHER -> "placeholder"

Show(u, c) ==
    CASE c[u] = "loaded" -> u
      [] c[u] = "failed" -> "error"
      [] OTHER -> "placeholder"

\* The slot after the load of settled has settled while url is current.
SlotAppliesSettled(settled, url, c) ==
    IF c[settled] = "loaded" THEN settled ELSE Show(url, c)

SlotAfter(settled, url, c) == Show(url, c)

\* k/10 * x
Scale10(k, x) == (k * x) \div 10

\* box.min.y of new THREE.Box3().setFromObject(gltf.scene): the lowest
\* world Y of the scene under the parent world matrix m.
BoxMinY(m, p, scale10, minY) == m.offset + Scale10(m.scale10, p + Scale10(scale10, minY))

\* gltf.scene.position.y -= minY
NormalizeKeepsPosition(m, p, scale10, minY) == p

Normalize(m, p, scale10, minY) == p - BoxMinY(m, p, scale10, minY)

\* The parent world matrix the effect reads: the mount's once a frame has
\* been rendered, the identity before.
SeenMount == IF worldFresh THEN mount ELSE IdentityMount

LoadInit ==
    /\ charMounted = FALSE
    /\ overrideUrl \in {NoUrl, "override.glb"}
    /\ savedUrl = NoUrl
    /\ storagePc = "idle"
    \* useGLTF.preload(FALLBACK_GLB) at module load
    /\ cache = [u \in Locators |-> IF u = FALLBACK_GLB THEN "pending" ELSE "none"]
    /\ slot = "placeholder"
    /\ mountedScene = NoUrl
    /\ posY = [u \in Locators |-> 0]
    /\ modelMinY \in [Locators -> MinYs]
    /\ modelMinY["override.glb"] = modelMinY["stored.glb"]
    /\ mount \in Mounts
    /\ worldFresh = FALSE
    /\ started = <<FALLBACK_GLB>>
    /\ resolved = <<>>
    /\ overrides = 0
    /\ effectRuns = [u \in Locators |-> 0]

LoadPark ==
    /\ charMounted = FALSE
    /\ overrideUrl = NoUrl
    /\ savedUrl = NoUrl
    /\ storagePc = "parked"
    /\ cache = [u \in Locators |-> "none"]
    /\ slot = "placeholder"
    /\ mountedScene = NoUrl
    /\ posY = [u \in Locators |-> 0]
    /\ modelMinY = [u \in Locators |-> 0]
    /\ mount = IdentityMount
    /\ worldFresh = FALSE
    /\ started = <<>>
    /\ resolved = <<>>
    /\ overrides = 0
    /\ effectRuns = [u \in Locators |-> 0]

\* A render of the mounted Character with the props and state (ov, saved)
\* over the cache c, after the load of settled has settled (settled = the
\* current locator for a render with another cause), and the effect of
\* CharacterInner when a scene not committed before is committed.  An error
\* thrown by useGLTF is caught by nothing in Character: the tree unmounts.
Rerender(ov, saved, c, settled) ==
    LET url == finalUrl(ov, saved)
        c2 == StartIfNone(c, url)
        shown == SlotAfter(settled, url, c2)
    IN /\ cache' = c2
       /\ started' = IF c2 # c THEN Append(started, url) ELSE started
       /\ slot' = shown
       /\ charMounted' = (shown # "error")
       /\ IF shown \in Locators /\ shown # mountedScene
          THEN /\ mountedScene' = shown
               /\ posY' = [posY EXCEPT ![shown] =
                              Normalize(SeenMount, posY[shown], CharacterScaleTenths,
                                        modelMinY[shown])]
               /\ effectRuns' = [effectRuns EXCEPT ![shown] = @ + 1]
          ELSE UNCHANGED <<mountedScene, posY, effectRuns>>

\* Character mounts: first render, and the effect starts AsyncStorage.getItem.
MountCharacter ==
    /\ ~charMounted
    /\ slot # "error"
    /\ storagePc = "idle"
    /\ storagePc' = "pending"
    /\ Rerender(overrideUrl, savedUrl, cache, finalUrl(overrideUrl, savedUrl))
    /\ UNCHANGED <<overrideUrl, savedUrl, modelMinY, mount, worldFresh, resolved, overrides>>
    /\ UNCHANGED othersOfLoad

\* AsyncStorage.getItem('avatarUrl') resolves with a stored locator or null:
\* setSavedUrl(stored).
StorageResolve ==
    \E stored \in {NoUrl, "stored.glb"} :
        /\ charMounted
        /\ storagePc = "pending"
        /\ storagePc' = "resolved"
        /\ savedUrl' = stored
        /\ Rerender(overrideUrl, stored, cache, finalUrl(overrideUrl, stored))
        /\ UNCHANGED <<overrideUrl, modelMinY, mount, worldFresh, resolved,
                       overrides>>
        /\ UNCHANGED othersOfLoad

\* AsyncStorage.getItem rejects: catch { setSavedUrl(null) }
StorageReject ==
    /\ charMounted
    /\ storagePc = "pending"
    /\ storagePc' = "rejected"
    /\ savedUrl' = NoUrl
    /\ Rerender(overrideUrl, NoUrl, cache, finalUrl(overrideUrl, NoUrl))
    /\ UNCHANGED <<overrideUrl, modelMinY, mount, worldFresh, resolved,
                   overrides>>
    /\ UNCHANGED othersOfLoad

\* The parent renders Character with another overrideUrl.
SetOverride ==
    \E ov \in {NoUrl, "override.glb"} :
        /\ charMounted
        /\ ov # overrideUrl
        /\ overrides < MaxOverrideChanges
        /\ overrides' = overrides + 1
        /\ overrideUrl' = ov
        /\ Rerender(ov, savedUrl, cache, finalUrl(ov, savedUrl))
        /\ UNCHANGED <<savedUrl, storagePc, modelMinY, mount, worldFresh,
                       resolved>>
        /\ UNCHANGED othersOfLoad

\* The fetch of u completes: the cache holds its scene, and a mounted
\* Character that was suspended renders again.
LoadResolve ==
    \E u \in Locators :
        /\ cache[u] = "pending"
        /\ resolved' = Append(resolved, u)
        /\ IF charMounted
           THEN Rerender(overrideUrl, savedUrl, [cache EXCEPT ![u] = "loaded"], u)
           ELSE /\ cache' = [cache EXCEPT ![u] = "loaded"]
                /\ UNCHANGED <<charMounted, slot, mountedScene, posY, started,
                               effectRuns>>
        /\ UNCHANGED <<overrideUrl, savedUrl, storagePc, modelMinY, mount,
                       worldFresh, overrides>>
        /\ UNCHANGED othersOfLoad

\* The fetch of u fails: the cache holds the error, which useGLTF(u) throws
\* at every later render.
LoadReject ==
    \E u \in Locators :
        /\ cache[u] = "pending"
        /\ resolved' = Append(resolved, u)
        /\ IF charMounted
           THEN Rerender(overrideUrl, savedUrl, [cache EXCEPT ![u] = "failed"], u)
           ELSE /\ cache' = [cache EXCEPT ![u] = "failed"]
                /\ UNCHANGED <<charMounted, slot, mountedScene, posY, started,
                               effectRuns>>
        /\ UNCHANGED <<overrideUrl, savedUrl, storagePc, modelMinY, mount,
                       worldFresh, overrides>>
        /\ UNCHANGED othersOfLoad

\* The renderer draws a frame: scene.updateMatrixWorld().
RenderFrame ==
    /\ charMounted
    /\ ~worldFresh
    /\ worldFresh' = TRUE
    /\ UNCHANGED <<charMounted, overrideUrl, savedUrl, storagePc, cache, slot,
                   mountedScene, posY, modelMinY, mount, started, resolved, overrides,
                   effectRuns>>
    /\ UNCHANGED othersOfLoad

(***************************************************************************)
(* makeRadialRoughnessTex                                                  *)
(***************************************************************************)
\* Roughness values are fixed-point: RoughDen units per 1.0.
RoughDen == 100
\* centerRough = 0.12, edgeRough = 0.28
DefaultCenterRough == 12
DefaultEdgeRough == 28
\* An argument that is not passed (undefined).
Undefined == -1000
\* The largest texture size that is enumerated.
MaxTexSize == 3
TexSizes == 0..MaxTexSize
\* Roughness arguments: below 0, the defaults, inside [0, 1], 1 and above 1.
RoughArgs == {Undefined, -50, 0, DefaultCenterRough, DefaultEdgeRough, 100, 150}
\* The most calls of one run.
MaxTexCalls == 3

\* A parameter default: the default when the argument is undefined.
ParamDefault(arg, default) == IF arg = Undefined THEN default ELSE arg

\* t = r * r with r = Math.min(1, Math.sqrt(dx * dx + dy * dy) / maxR),
\* cx = cy = size * 0.5, as the fraction num / den:
\* (dx*dx + dy*dy) / (cx*cx + cy*cy) = ((2x-size)^2 + (2y-size)^2) / (2 size^2)
EaseDen(size) == 2 * size * size
EaseNum(size, x, y) ==
    Min(EaseDen(size), (2 * x - size) * (2 * x - size) + (2 * y - size) * (2 * y - size))

\* THREE.MathUtils.lerp(centerRough, edgeRough, t) = (1 - t) * c + t * e,
\* as a numerator over RoughDen * EaseDen(size)
LerpNum(size, c, e, x, y) ==
    c * (EaseDen(size) - EaseNum(size, x, y)) + e * EaseNum(size, x, y)

\* THREE.MathUtils.clamp(rough, 0, 1) = Math.max(0, Math.min(1, rough))
ClampNum(num, den) == Max(0, Min(den, num))

\* Math.round(q * 255) for q = num / den >= 0: halves round up
Round255(num, den) == (2 * 255 * num + den) \div (2 * den)

\* v of the pixel (x, y)
PixelValue(size, c, e, x, y) ==
    LET den == RoughDen * EaseDen(size)
    IN Round255(ClampNum(LerpNum(size, c, e, x, y), den), den)

\* data[i + 0] = v; data[i + 1] = v; data[i + 2] = v; data[i + 3] = 255
PixelBytesNoAlpha(v) == <<v, v, v, 0>>

PixelBytes(v) == <<v, v, v, 255>>

\* The byte offsets i = (y * size + x) * 4 the two loops visit.
LoopOffsets(size) == {(y * size + x) * 4 : x \in 0..(size - 1), y \in 0..(size - 1)}

\* The Uint8Array after the loops: new Uint8Array(size * size * 4) is
\* zero-filled and the pixel at offset i gets its four bytes (k is 0-based).
ByteAt(size, c, e, k) ==
    LET i == k - (k % 4)
        p == i \div 4
    IN IF i \in LoopOffsets(size)
       THEN PixelBytes(PixelValue(size, c, e, p % size, p \div size))[(k % 4) + 1]
       ELSE 0

makeRadialRoughnessTex(size, centerRough, edgeRough) ==
    LET c == ParamDefault(centerRough, DefaultCenterRough)
        e == ParamDefault(edgeRough, DefaultEdgeRough)
    IN [k \in 1..(size * size * 4) |-> ByteAt(size, c, e, k - 1)]

TexInit ==
    /\ texArgs \in [size : TexSizes, centerRough : RoughArgs, edgeRough : RoughArgs]
    /\ texCalls = 0
    /\ texOut = <<>>
    /\ texLast = <<>>

TexPark ==
    /\ texArgs = [size |-> 0, centerRough |-> 0, edgeRough |-> 0]
    /\ texCalls = 0
    /\ texOut = <<>>
    /\ texLast = <<>>

\* makeRadialRoughnessTex(size, centerRough, edgeRough) with the arguments
\* under test.
CallMakeTex ==
    /\ texCalls < MaxTexCalls
    /\ texCalls' = texCalls + 1
    /\ texLast' = makeRadialRoughnessTex(texArgs.size, texArgs.centerRough, texArgs.edgeRough)
    /\ texOut' = Append(texOut, texLast')
    /\ UNCHANGED texArgs
    /\ UNCHANGED othersOfTex

\* A call with other arguments: another size, the two roughness values
\* exchanged.
CallMakeTexOther ==
    /\ texCalls < MaxTexCalls
    /\ texCalls' = texCalls + 1
    /\ texLast' = makeRadialRoughnessTex((texArgs.size + 1) % (MaxTexSize + 1),
                                         texArgs.edgeRough, texArgs.centerRough)
    /\ UNCHANGED <<texArgs, texOut>>
    /\ UNCHANGED othersOfTex

(***************************************************************************)
(* getExtension / getParameter patches                                     *)
(***************************************************************************)
\* 'EXT_texture_filter_anisotropic', 'WEBKIT_..', 'MOZ_..'
AnisoNames ==
    {"EXT_texture_filter_anisotropic", "WEBKIT_EXT_texture_filter_anisotropic",
     "MOZ_EXT_texture_filter_anisotropic"}
ExtNames == AnisoNames \cup {"OES_texture_float"}
\* getParameter arguments; "undefined" is the missing argument.
PnameArgs == {"undefined", "MAX_TEXTURE_SIZE", "MAX_TEXTURE_MAX_ANISOTROPY_EXT"}
\* The largest number a native getParameter returns.
MaxParamValue == 16

\* Values a query gives: k is the kind, n the number it carries
\* (MAX_TEXTURE_MAX_ANISOTROPY_EXT of an extension object, or the number).
Null == [k |-> "null", n |-> 0]
UndefinedValue == [k |-> "undefined", n |-> 0]
NumberValue(v) == [k |-> "number", n |-> v]
Thrown == [k |-> "throw", n |-> 0]
ExtObject == [k |-> "object", n |-> MaxParamValue]
\* { TEXTURE_MAX_ANISOTROPY_EXT: 0x84fe, MAX_TEXTURE_MAX_ANISOTROPY_EXT: 1 }
Stub == [k |-> "stub", n |-> 1]

\* What the native functions can give.
ExtOutcomes == {ExtObject, Null, UndefinedValue}
ParamOutcomes == {NumberValue(0), NumberValue(MaxParamValue), UndefinedValue, Thrown}
NoQuery == [fn |-> "none", arg |-> "", native |-> Null]

\* ext ?? null
OrNull(ext) == IF ext = UndefinedValue THEN Null ELSE ext

\* typeof ctx.getExtension === 'function' / origGetExtension is defined
HasGetExtension(chain, hasNative) == chain # <<>> \/ hasNative

\* gl.getExtension(name) through the patches of chain (newest first); nat is
\* what the native getExtension gives for name.
RECURSIVE GetExtension(_, _, _, _)
GetExtension(chain, hasNative, name, nat) ==
    IF chain = <<>>
    THEN nat
    ELSE IF Head(chain) = "canvas"
         THEN IF name \in AnisoNames
              THEN Stub
              ELSE GetExtension(Tail(chain), hasNative, name, nat)
         ELSE OrNull(IF HasGetExtension(Tail(chain), hasNative)
                     THEN GetExtension(Tail(chain), hasNative, name, nat)
                     ELSE Null)

\* gl.getParameter(pname); nat is what the native getParameter does.
GetParameter(patched, hasNative, pname, nat) ==
    IF ~patched
    THEN nat
    ELSE IF pname = "undefined"
         THEN NumberValue(0)
         ELSE IF hasNative THEN nat ELSE NumberValue(0)

QueryInit ==
    /\ glHasGetExtension \in BOOLEAN
    /\ glHasGetParameter \in BOOLEAN
    /\ extWrappers = <<>>
    /\ paramPatched = FALSE
    /\ queryCall = NoQuery
    /\ queryResult = Null

QueryPark ==
    /\ glHasGetExtension = FALSE
    /\ glHasGetParameter = FALSE
    /\ extWrappers = <<>>
    /\ paramPatched = FALSE
    /\ queryCall = NoQuery
    /\ queryResult = Null

\* GLView.prototype.createContextAsync override: the new context gets the
\* getExtension and getParameter wrappers before anything uses it.
OverrideQueries ==
    /\ extWrappers = <<>>
    /\ ~paramPatched
    /\ queryCall = NoQuery
    /\ extWrappers' = <<"override">>
    /\ paramPatched' = TRUE
    /\ UNCHANGED <<glHasGetExtension, glHasGetParameter, queryCall, queryResult>>
    /\ UNCHANGED othersOfQuery

\* Canvas onCreated:  if (ctx && typeof ctx.getExtension === 'function')
CanvasPatchGetExtension ==
    /\ \A i \in 1..Len(extWrappers) : extWrappers[i] # "canvas"
    /\ HasGetExtension(extWrappers, glHasGetExtension)
    /\ extWrappers' = <<"canvas">> \o extWrappers
    /\ UNCHANGED <<glHasGetExtension, glHasGetParameter, paramPatched, queryCall,
                   queryResult>>
    /\ UNCHANGED othersOfQuery

\* A consumer calls gl.getExtension(name).
CallGetExtension ==
    \E name \in ExtNames, nat \in ExtOutcomes :
        /\ HasGetExtension(extWrappers, glHasGetExtension)
        /\ ~glHasGetExtension => nat = Null
        /\ queryCall' = [fn |-> "getExtension", arg |-> name, native |-> nat]
        /\ queryResult' = GetExtension(extWrappers, glHasGetExtension, name, nat)
        /\ UNCHANGED <<glHasGetExtension, glHasGetParameter, extWrappers, paramPatched>>
        /\ UNCHANGED othersOfQuery

\* A consumer calls gl.getParameter(pname).
CallGetParameter ==
    \E pname \in PnameArgs, nat \in ParamOutcomes :
        /\ paramPatched \/ glHasGetParameter
        /\ ~glHasGetParameter => nat = UndefinedValue
        /\ queryCall' = [fn |-> "getParameter", arg |-> pname, native |-> nat]
        /\ queryResult' = GetParameter(paramPatched, glHasGetParameter, pname, nat)
        /\ UNCHANGED <<glHasGetExtension, glHasGetParameter, extWrappers, paramPatched>>
        /\ UNCHANGED othersOfQuery

(***************************************************************************)
(* HeroPlatform: the meshes on the platform surface and their draw order   *)
(***************************************************************************)
\* The most frames of one run.
MaxComposeFrames == 6

\* One mesh of HeroPlatform: id is the creation order, y the position in
\* units of 1e-4, factor and units the polygonOffsetFactor / Units (0 when
\* polygonOffset is not set), overlay marks the passes laid on the disk.
Pass(name, id, y, renderOrder, polygonOffset, factor, units, depthWrite, blending, overlay) ==
    [name |-> name, id |-> id, y |-> y, renderOrder |-> renderOrder,
     polygonOffset |-> polygonOffset, factor |-> factor, units |-> units,
     depthWrite |-> depthWrite, blending |-> blending, overlay |-> overlay]

\* <mesh ref={meshRef}> with meshStandardMaterial
BaseDisk == Pass("base", 1, 0, 0, FALSE, 0, 0, TRUE, "normal", FALSE)
\* position={[0, 0.0005, 0]} renderOrder={5}
RuneGlow == Pass("runeGlow", 2, 5, 5, TRUE, -1, -1, FALSE, "additive", TRUE)
\* position={[0, 0.0006, 0]} renderOrder={6}
RimHighlight == Pass("rimHighlight", 3, 6, 6, TRUE, -1, -1, FALSE, "additive", TRUE)
\* position={[0, 0.0004, 0]} renderOrder={4}
RadialFalloff == Pass("radialFalloff", 4, 4, 4, TRUE, -1, -1, FALSE, "normal", TRUE)
\* position={[0, -0.01, 0]} with meshBasicMaterial
Underglow == Pass("underglow", 5, -100, 0, FALSE, 0, 0, TRUE, "normal", FALSE)

HeroPasses == {BaseDisk, RuneGlow, RimHighlight, RadialFalloff, Underglow}

CameraSides == {"above", "level", "below"}

\* The view depth of a pass, up to a common term: seen from above the lower
\* mesh is the farther one.
ViewDepth(pass, side) ==
    CASE side = "above" -> -pass.y
      [] side = "below" -> pass.y
      [] OTHER -> 0

\* The order of the transparent render list (every material here sets
\* transparent): renderOrder, then farther first, then id.
DrawnBefore(a, b, side) ==
    \/ a.renderOrder < b.renderOrder
    \/ /\ a.renderOrder = b.renderOrder
       /\ \/ ViewDepth(a, side) > ViewDepth(b, side)
          \/ ViewDepth(a, side) = ViewDepth(b, side) /\ a.id < b.id

\* The names of the passes of S in draw order.
SortPasses(S, side) ==
    LET n == Cardinality(S)
        q == CHOOSE f \in [1..n -> S] :
                 \A i, j \in 1..n : i < j => DrawnBefore(f[i], f[j], side)
    IN [i \in 1..n |-> q[i].name]

ComposeInit ==
    /\ scenePasses = {}
    /\ cameraSide \in CameraSides
    /\ drawOrder = <<>>
    /\ drawn = 0
    /\ composeFrames = 0

ComposePark ==
    /\ scenePasses = {}
    /\ cameraSide = "parked"
    /\ drawOrder = <<>>
    /\ drawn = 0
    /\ composeFrames = 0

\* HeroPlatform is committed: its five meshes are in the scene.
MountHeroPlatform ==
    /\ scenePasses = {}
    /\ scenePasses' = HeroPasses
    /\ UNCHANGED <<cameraSide, drawOrder, drawn, composeFrames>>
    /\ UNCHANGED othersOfCompose

\* The orbit camera moves between two frames.
MoveCamera ==
    \E side \in CameraSides :
        /\ side # cameraSide
        /\ drawn = Len(drawOrder)
        /\ cameraSide' = side
        /\ UNCHANGED <<scenePasses, drawOrder, drawn, composeFrames>>
        /\ UNCHANGED othersOfCompose

\* The renderer starts a frame: it sorts the render list.
BeginFrame ==
    /\ scenePasses # {}
    /\ drawn = Len(drawOrder)
    /\ composeFrames < MaxComposeFrames
    /\ composeFrames' = composeFrames + 1
    /\ drawOrder' = SortPasses(scenePasses, cameraSide)
    /\ drawn' = 0
    /\ UNCHANGED <<scenePasses, cameraSide>>
    /\ UNCHANGED othersOfCompose

\* The renderer draws the next pass of the list.
DrawPass ==
    /\ drawn < Len(drawOrder)
    /\ drawn' = drawn + 1
    /\ UNCHANGED <<scenePasses, cameraSide, drawOrder, composeFrames>>
    /\ UNCHANGED othersOfCompose

(***************************************************************************)
(* patchEXGLPixelStorei: prototype patch with a retry loop                 *)
(***************************************************************************)
\* attempts >= 10
MaxAttempts == 10
\* The most evaluations of the module (a reload evaluates it again).
MaxLoads == 2
Loads == 1..MaxLoads
\* [WebGL1, WebGL2]
CtorIds == 1..2
\* A constructor is absent (!Ctor || !Ctor.prototype), has a prototype with
\* no pixelStorei function, or has one that can be wrapped.
CtorStates == {"absent", "noFunction", "patchable"}

\* The body of the forEach of tryPatchOnce for one constructor: whether it
\* sets didPatch, and the mark and the wrap count of the prototype after it.
PatchCtorIgnoresMark(ctor, marked, wraps) ==
    CASE ctor = "absent" -> [did |-> FALSE, marked |-> marked, wraps |-> wraps]
      [] ctor = "noFunction" -> [did |-> FALSE, marked |-> marked, wraps |-> wraps]
      [] OTHER -> [did |-> TRUE, marked |-> TRUE, wraps |-> wraps + 1]

PatchCtor(ctor, marked, wraps) ==
    CASE ctor = "absent" -> [did |-> FALSE, marked |-> marked, wraps |-> wraps]
      [] marked -> [did |-> TRUE, marked |-> marked, wraps |-> wraps]
      [] ctor = "noFunction" -> [did |-> FALSE, marked |-> marked, wraps |-> wraps]
      [] OTHER -> [did |-> TRUE, marked |-> TRUE, wraps |-> wraps + 1]

\* tryPatchOnce(): the result for every constructor, and didPatch.
PatchAll == [i \in CtorIds |-> PatchCtor(ctors[i], protoMarked[i], protoWraps[i])]
DidPatch == \E i \in CtorIds : PatchAll[i].did

\* The prototypes after tryPatchOnce().
TryPatchOnce ==
    /\ protoMarked' = [i \in CtorIds |-> PatchAll[i].marked]
    /\ protoWraps' = [i \in CtorIds |-> PatchAll[i].wraps]

RetryInit ==
    /\ ctors \in [CtorIds -> CtorStates]
    /\ protoMarked = [i \in CtorIds |-> FALSE]
    /\ protoWraps = [i \in CtorIds |-> 0]
    /\ loopPc = [l \in Loads |-> "notLoaded"]
    /\ attempts = [l \in Loads |-> 0]

RetryPark ==
    /\ ctors = [i \in CtorIds |-> "absent"]
    /\ protoMarked = [i \in CtorIds |-> FALSE]
    /\ protoWraps = [i \in CtorIds |-> 0]
    /\ loopPc = [l \in Loads |-> "parked"]
    /\ attempts = [l \in Loads |-> 0]

\* The module is evaluated: if (!tryPatchOnce()) { attempts = 0; setInterval }
ModuleLoad ==
    \E l \in Loads :
        /\ loopPc[l] = "notLoaded"
        /\ \A k \in Loads : k < l => loopPc[k] # "notLoaded"
        /\ TryPatchOnce
        /\ loopPc' = [loopPc EXCEPT ![l] = IF DidPatch THEN "stopped" ELSE "running"]
        /\ UNCHANGED <<ctors, attempts>>
        /\ UNCHANGED othersOfRetry

\* The interval callback of one loop:
\*   attempts += 1; if (tryPatchOnce() || attempts >= 10) clearInterval(timer)
IntervalTick ==
    \E l \in Loads :
        /\ loopPc[l] = "running"
        /\ attempts' = [attempts EXCEPT ![l] = attempts[l] + 1]
        /\ TryPatchOnce
        /\ loopPc' = [loopPc EXCEPT ![l] =
                         IF DidPatch \/ attempts[l] + 1 >= MaxAttempts
                         THEN "stopped" ELSE "running"]
        /\ UNCHANGED ctors
        /\ UNCHANGED othersOfRetry

\* A WebGL constructor appears after GL is created, or its prototype gets
\* its pixelStorei.
CtorAppears ==
    \E i \in CtorIds, st \in {"noFunction", "patchable"} :
        /\ ctors[i] # "patchable"
        /\ ctors[i] # st
        /\ ctors' = [ctors EXCEPT ![i] = st]
        /\ UNCHANGED <<protoMarked, protoWraps, loopPc, attempts>>
        /\ UNCHANGED othersOfRetry

(***************************************************************************)
(* Specifications                                                          *)
(***************************************************************************)
InitAniso == AnisoInit /\ PixelPark /\ WatchdogPark /\ DragPark /\ WrapPark /\ OrbitPark /\ LoadPark
    /\ TexPark /\ QueryPark /\ ComposePark /\ RetryPark
NextAniso == CallGetSafeAnisotropy
SpecAniso == InitAniso /\ [][NextAniso]_vars

InitPixel == PixelInit /\ AnisoPark /\ WatchdogPark /\ DragPark /\ WrapPark /\ OrbitPark /\ LoadPark
    /\ TexPark /\ QueryPark /\ ComposePark /\ RetryPark
NextPixel ==
    \/ PatchPrototype
    \/ OverrideCreateContext
    \/ CanvasOnCreated
    \/ CallPixelStorei
SpecPixel == InitPixel /\ [][NextPixel]_vars

InitWatchdog == WatchdogInit /\ AnisoPark /\ PixelPark /\ DragPark /\ WrapPark /\ OrbitPark /\ LoadPark
    /\ TexPark /\ QueryPark /\ ComposePark /\ RetryPark
NextWatchdog ==
    \/ HandleStart
    \/ HandleEnd
    \/ TimerFire
    \/ AppStateChange
    \/ AnimationFrame
    \/ Unmount
    \/ Tick
SpecWatchdog == InitWatchdog /\ [][NextWatchdog]_vars
\* Animation frames keep being delivered: a requested frame callback runs.
SpecWatchdogFrames == SpecWatchdog /\ WF_vars(AnimationFrame)

InitDrag == DragInit /\ AnisoPark /\ PixelPark /\ WatchdogPark /\ WrapPark /\ OrbitPark /\ LoadPark
    /\ TexPark /\ QueryPark /\ ComposePark /\ RetryPark
NextDrag ==
    \/ StateBegan
    \/ StateActive
    \/ GestureEvent
    \/ StateEnd
    \/ StateFailed
    \/ DoubleTap
    \/ Frame
SpecDrag == InitDrag /\ [][NextDrag]_vars

InitWrap == WrapInit /\ AnisoPark /\ PixelPark /\ WatchdogPark /\ DragPark /\ OrbitPark /\ LoadPark
    /\ TexPark /\ QueryPark /\ ComposePark /\ RetryPark
NextWrap == WrapFrame
SpecWrap == InitWrap /\ [][NextWrap]_vars

InitOrbit == OrbitInit /\ AnisoPark /\ PixelPark /\ WatchdogPark /\ DragPark /\ WrapPark /\ LoadPark
    /\ TexPark /\ QueryPark /\ ComposePark /\ RetryPark
NextOrbit ==
    \/ RotateInput
    \/ ZoomInput
    \/ ControlsUpdate
SpecOrbit == InitOrbit /\ [][NextOrbit]_vars

InitLoad ==
    LoadInit /\ AnisoPark /\ PixelPark /\ WatchdogPark /\ DragPark /\ WrapPark /\ OrbitPark
    /\ TexPark /\ QueryPark /\ ComposePark /\ RetryPark
NextLoad ==
    \/ MountCharacter
    \/ StorageResolve
    \/ StorageReject
    \/ SetOverride
    \/ LoadResolve
    \/ LoadReject
    \/ RenderFrame
SpecLoad == InitLoad /\ [][NextLoad]_vars

InitTex ==
    TexInit /\ AnisoPark /\ PixelPark /\ WatchdogPark /\ DragPark /\ WrapPark /\ OrbitPark
    /\ LoadPark /\ QueryPark /\ ComposePark /\ RetryPark
NextTex ==
    \/ CallMakeTex
    \/ CallMakeTexOther
SpecTex == InitTex /\ [][NextTex]_vars

InitQuery ==
    QueryInit /\ AnisoPark /\ PixelPark /\ WatchdogPark /\ DragPark /\ WrapPark /\ OrbitPark
    /\ LoadPark /\ TexPark /\ ComposePark /\ RetryPark
NextQuery ==
    \/ OverrideQueries
    \/ CanvasPatchGetExtension
    \/ CallGetExtension
    \/ CallGetParameter
SpecQuery == InitQuery /\ [][NextQuery]_vars

InitCompose ==
    ComposeInit /\ AnisoPark /\ PixelPark /\ WatchdogPark /\ DragPark /\ WrapPark
    /\ OrbitPark /\ LoadPark /\ TexPark /\ QueryPark /\ RetryPark
NextCompose ==
    \/ MountHeroPlatform
    \/ MoveCamera
    \/ BeginFrame
    \/ DrawPass
SpecCompose == InitCompose /\ [][NextCompose]_vars

InitRetry ==
    RetryInit /\ AnisoPark /\ PixelPark /\ WatchdogPark /\ DragPark /\ WrapPark
    /\ OrbitPark /\ LoadPark /\ TexPark /\ QueryPark /\ ComposePark
NextRetry ==
    \/ ModuleLoad
    \/ IntervalTick
    \/ CtorAppears
SpecRetry == InitRetry /\ [][NextRetry]_vars

(***************************************************************************)
(* Claims                                                                  *)
(***************************************************************************)
\* The maximum the capabilities report: what the getter returns when there
\* is a getter, else the maxAnisotropy field.
ReportedMax ==
    IF renderer.capabilities.getMaxAnisotropy.fn
    THEN renderer.capabilities.getMaxAnisotropy.ret
    ELSE renderer.capabilities.maxAnisotropy

HasCapabilities == renderer.present /\ renderer.capabilities.present

\* C9: getSafeAnisotropy returns a value in [1, 8] for every capability
\* value; exactly 1 when the renderer or its capabilities are absent or the
\* reported maximum is absent, non-numeric, NaN, infinite, zero or negative;
\* and 8 for every (finite) reported maximum above 8.
Thm_C9 ==
    anisoPc = "done" =>
        /\ anisoResult >= 1 * AnisoDen
        /\ anisoResult <= 8 * AnisoDen
        /\ (~HasCapabilities \/ ReportedMax.t # "number" \/ ReportedMax.n <= 0)
              => anisoResult = 1 * AnisoDen
        /\ (HasCapabilities /\ ReportedMax.t = "number" /\ ReportedMax.n > 8 * AnisoDen)
              => anisoResult = 8 * AnisoDen

\* A call has returned for a renderer whose getter reports more than 8.
Wit_C9 ==
    /\ anisoPc = "done"
    /\ HasCapabilities
    /\ renderer.capabilities.getMaxAnisotropy.fn
    /\ ReportedMax.t = "number"
    /\ ReportedMax.n > 8 * AnisoDen
    /\ anisoResult = 8 * AnisoDen

\* The parameters each patch variant is written to ignore.
KnownUnsupported(v) ==
    IF v = "canvas"
    THEN {37440, 37441, 37443, 3314, 3315, 3316}
    ELSE {37443, 37441}

Thm_C2 ==
    /\ elapsed < WatchdogTicks => ~wdFired
    /\ (stageMounted /\ notified = "start" /\ elapsed > WatchdogTicks) => wdFired
    /\ (stageMounted /\ wdFired) =>
          /\ wdDisables = 1
          /\ wdEnables + CountIn(rafQueue, gestures) = 1

\* More than 2.5 s after a begin with no end: one disable, one re-enable.
Wit_C2 ==
    /\ stageMounted
    /\ notified = "start"
    /\ elapsed > WatchdogTicks
    /\ wdDisables = 1
    /\ wdEnables = 1
    /\ rafQueue = <<>>
    /\ controlsEnabled

\* C3: when the watchdog fires, the gesture session is closed as handleEnd
\* closes it: the timer handle is cleared and onEnd is delivered.
Cex_C3 ==
    (stageMounted /\ wdFired) => (dragTimer = 0 /\ notified = "end")

\* C4: a drag that begins at base yaw b, whose last move event has
\* translationX dx, and then ends, leaves the target yaw at b + dx / 150;
\* the begin and end events themselves do not change the target yaw.
Thm_C4 ==
    drags > 0 =>
        IF moved
        THEN rotationY * Sensitivity = baseAtBegin * Sensitivity + lastDx * YawDen
        ELSE rotationY = baseAtBegin

\* A second drag, begun at a nonzero base and moved, has ended.
Wit_C4 ==
    /\ gestureState = "END"
    /\ drags = 2
    /\ moved
    /\ lastDx # 0
    /\ baseAtBegin # 0
    /\ rotationY # baseAtBegin

\* C5: from a gesture-begin on, auto-rotate is off in every state, through
\* the move events and the gesture end or cancel, until a double tap.
Thm_C5 ==
    (drags > 0 /\ ~toggled) => ~autoRotate

\* A drag has begun, moved and ended with no double tap: auto-rotate is off.
Wit_C5 ==
    /\ drags > 0
    /\ gestureState \in {"END", "CANCELLED"}
    /\ moved
    /\ ~toggled
    /\ ~autoRotate

\* The two runs show the same orientation: their yaws differ by a multiple
\* of 2 pi, up to the rounding of one unit per frame.
SameOrientation(a, b) ==
    LET m == (a - b) % TwoPi
    IN m <= Tenth \/ m >= TwoPi - Tenth

\* C7: from a current yaw of 2 pi + 0.1 and from a current yaw of 0.1, with
\* the same target, every following frame shows the same orientation modulo
\* 2 pi.
Cex_C7 ==
    SameOrientation(yawA, yawB)

\* The limits as configured: the value passed in cameraLimits, else the
\* default (1.5, 6, 0.35 pi, 0.95 pi).
Configured ==
    [minDistance |-> IF cameraLimits.minDistance = NotPassed THEN 150
                     ELSE cameraLimits.minDistance,
     maxDistance |-> IF cameraLimits.maxDistance = NotPassed THEN 600
                     ELSE cameraLimits.maxDistance,
     minPolar |-> IF cameraLimits.minPolar = NotPassed THEN (350 * PolarDen) \div 1000
                  ELSE cameraLimits.minPolar,
     maxPolar |-> IF cameraLimits.maxPolar = NotPassed THEN (950 * PolarDen) \div 1000
                  ELSE cameraLimits.maxPolar]

WithinLimits ==
    /\ distance >= Configured.minDistance
    /\ distance <= Configured.maxDistance
    /\ polar >= Configured.minPolar
    /\ polar <= Configured.maxPolar

\* The configured limits describe non-empty ranges that the controller can
\* reach: min <= max, and the polar range meets [eps, pi - eps].
ConsistentLimits ==
    /\ Configured.minDistance <= Configured.maxDistance
    /\ Configured.minPolar <= Configured.maxPolar
    /\ Configured.minPolar <= PolarDen - SafeEps
    /\ Configured.maxPolar >= SafeEps

\* C6 (as stated): in every reachable state the camera distance and the
\* polar angle lie within the configured limits, for the default limits
\* and for any limits passed in cameraLimits.
Cex_C6 ==
    WithinLimits

\* C6 (amended): the same, for the default limits and for any cameraLimits
\* whose configured limits are consistent.
Thm_C6 ==
    ConsistentLimits => WithinLimits

\* Inputs of large magnitude have been applied under passed limits and the
\* camera sits on the limits.
Wit_C6 ==
    /\ ConsistentLimits
    /\ cameraLimits.maxDistance # NotPassed
    /\ cameraLimits.maxPolar # NotPassed
    /\ orbitInputs >= 2
    /\ deltaPhi = 0
    /\ zoomScale = 100
    /\ distance = Configured.maxDistance
    /\ polar = Configured.maxPolar

\* x occurs before y in the sequence q (both occur).
Before(q, x, y) ==
    \E i, j \in 1..Len(q) : i < j /\ q[i] = x /\ q[j] = y

CurrentUrl == finalUrl(overrideUrl, savedUrl)

\* C1: when the load of A is started, the load of B is started before A
\* resolves, and A resolves after B, the avatar slot holds B's model and
\* not A's: the late result of A is not applied.
Thm_C1 ==
    \A A, B \in Locators :
        (/\ charMounted
         /\ Before(started, A, B)
         /\ Before(resolved, B, A)
         /\ cache[A] = "loaded"
         /\ cache[B] = "loaded"
         /\ CurrentUrl = B)
            => slot = B

\* The fallback load was started first and resolved last; the stored
\* locator's model is in the slot.
Wit_C1 ==
    /\ charMounted
    /\ started = <<FALLBACK_GLB, "stored.glb">>
    /\ resolved = <<"stored.glb", FALLBACK_GLB>>
    /\ cache[FALLBACK_GLB] = "loaded"
    /\ CurrentUrl = "stored.glb"
    /\ slot = "stored.glb"

\* The lowest world Y of the scene in the slot, above the platform's origin.
SlotMinY ==
    BoxMinY(mount, posY[slot], CharacterScaleTenths, modelMinY[slot]) - mount.platformY

\* C8: for any loaded model, after the normalization step the minimum Y of
\* its bounding box is 0 relative to the platform's local origin, within
\* 1e-4 (one unit), whatever the model's original minimum Y, the scale and
\* the offset and scale of the group the avatar is mounted in.
Cex_C8 ==
    slot \in Locators => (SlotMinY >= -1 /\ SlotMinY <= 1)

\* The fetch of the locator L that the mounted Character renders fails in
\* this step, L not being the fallback locator.
ChosenFetchFails(L) ==
    /\ charMounted
    /\ L # FALLBACK_GLB
    /\ CurrentUrl = L
    /\ cache[L] = "pending"
    /\ cache'[L] = "failed"

\* The step turns to the fallback locator: it issues a fetch of it, or its
\* fetch is in the cache already and Character renders it.
RetriesWithFallback ==
    \/ started' = Append(started, FALLBACK_GLB)
    \/ /\ cache'[FALLBACK_GLB] \in {"pending", "loaded"}
       /\ slot' = Show(FALLBACK_GLB, cache')

\* C11: a failure of the fetch of the chosen locator L is followed by one
\* fetch of the fallback locator, which Character then renders; no further
\* fetch is issued if that one fails too.
Cex_C11 ==
    [][\A L \in Locators : ChosenFetchFails(L) => RetriesWithFallback]_vars

\* Character has rendered: AsyncStorage.getItem was started at its mount.
HasRendered == storagePc \in {"pending", "resolved", "rejected"}

\* C12: when the fetch of the chosen locator has failed and the fetch of the
\* fallback locator has failed too, Character stays mounted with the
\* placeholder in the slot: no load error is thrown out of Character.
Cex_C12 ==
    (HasRendered /\ cache[CurrentUrl] = "failed" /\ cache[FALLBACK_GLB] = "failed")
        => (charMounted /\ slot = "placeholder")

\* The first non-empty of (overrideUrl, the stored locator, the fallback).
FirstNonEmpty ==
    IF overrideUrl # NoUrl THEN overrideUrl
    ELSE IF savedUrl # NoUrl THEN savedUrl
    ELSE FALLBACK_GLB

\* C13: the mounted Character loads the first non-empty of (overrideUrl, the
\* stored 'avatarUrl', the fallback locator): that locator's load has been
\* started and the slot holds its model once loaded, the placeholder before;
\* with no override, a stored locator that is absent or whose read failed
\* leaves the fallback locator as the one loaded.
Thm_C13 ==
    charMounted =>
        /\ cache[FirstNonEmpty] # "none"
        /\ slot = IF cache[FirstNonEmpty] = "loaded" THEN FirstNonEmpty ELSE "placeholder"
        /\ (overrideUrl = NoUrl /\ storagePc = "rejected")
              => (savedUrl = NoUrl /\ slot \in {FALLBACK_GLB, "placeholder"})
        /\ (overrideUrl = NoUrl /\ storagePc = "resolved" /\ savedUrl = NoUrl)
              => slot \in {FALLBACK_GLB, "placeholder"}

\* An override is given over a stored locator whose model is loaded, and the
\* override's model is in the slot.
Wit_C13 ==
    /\ charMounted
    /\ overrideUrl = "override.glb"
    /\ savedUrl = "stored.glb"
    /\ cache["stored.glb"] = "loaded"
    /\ slot = "override.glb"

\* The locators whose load has completed.
Completed == {u \in Locators : \E i \in 1..Len(resolved) : resolved[i] = u /\ cache[u] = "loaded"}

\* C14: while Character is mounted the slot holds the placeholder or the
\* model of a locator whose load has completed, never a model still loading;
\* when the locator changes to one that is loaded, the slot holds the new
\* model in the same step, with no state in between.
Thm_C14 ==
    charMounted =>
        /\ slot \in {"placeholder"} \cup Completed
        /\ mountedScene \in {NoUrl} \cup Completed
        /\ CurrentUrl \in Completed => slot = CurrentUrl
        /\ CurrentUrl \notin Completed => slot = "placeholder"

\* The override was taken away while its model was in the slot: the stored
\* locator's model, loaded before, replaced it at once; a third load is
\* still pending.
Wit_C14 ==
    /\ charMounted
    /\ overrides >= 1
    /\ overrideUrl = NoUrl
    /\ mountedScene = "stored.glb"
    /\ slot = "stored.glb"
    /\ cache["override.glb"] = "loaded"
    /\ cache[FALLBACK_GLB] = "pending"

\* The bytes of pixel p (0-based) of the buffer b.
PixelOf(b, p) == <<b[4 * p + 1], b[4 * p + 2], b[4 * p + 3], b[4 * p + 4]>>

Cex_C16 ==
    (queryCall.fn = "getExtension" /\ extWrappers # <<>>) =>
        IF queryCall.arg \in AnisoNames
        THEN queryResult.k = "stub" /\ queryResult.n = 1
        ELSE glHasGetExtension => queryResult = queryCall.native

\* C17: the patched getParameter never throws to its caller; when the native
\* getParameter is missing or throws, the patched one returns 0.
Cex_C17 ==
    (queryCall.fn = "getParameter" /\ paramPatched) =>
        /\ queryResult # Thrown
        /\ (~glHasGetParameter \/ queryCall.native = Thrown) => queryResult = NumberValue(0)

\* C18: for every installed pixelStorei wrapper, an exception thrown by the
\* pixelStorei it forwards to is caught and discarded: a call through a
\* patched context never throws to its caller.
Cex_C18 ==
    (lastCall # NoCall /\ reached[1].layer # "native") => ~raised

\* The last gesture got its end before its watchdog timer fired.
EndedBeforeFire == gestures > 0 /\ notified = "end" /\ ~wdFired

\* The timer of the last gesture is disarmed and has had no effect.
Disarmed ==
    /\ dragTimer = 0
    /\ \A t \in timers : t.id # gestures
    /\ wdDisables = 0
    /\ wdEnables = 0
    /\ CountIn(rafQueue, gestures) = 0

\* C19: a handleEnd that arrives less than 2.5 s after the latest
\* handleStart disarms the timer that handleStart armed, and that timer
\* never fires afterwards: it causes no disable and no re-enable of the
\* controller, however much time passes.
Thm_C19 ==
    /\ [](EndedBeforeFire => Disarmed)
    /\ [][(notified = "start" /\ notified' = "end" /\ elapsed < WatchdogTicks)
             => EndedBeforeFire']_vars
    /\ [][(EndedBeforeFire /\ gestures' = gestures) => EndedBeforeFire']_vars

\* The end came early, more than 2.5 s have passed since the begin, and the
\* controller was never disabled.
Wit_C19 ==
    /\ stageMounted
    /\ EndedBeforeFire
    /\ elapsed > WatchdogTicks
    /\ timers = {}
    /\ controlsEnabled
    /\ rafQueue = <<>>

\* The app leaves the active state in this step, during a gesture.
LeavesActiveMidGesture ==
    /\ stageMounted
    /\ notified = "start"
    /\ appState = "active"
    /\ appState' # "active"

\* C20: when the app leaves the active state while a gesture is in progress
\* (begin seen, no end yet), the controller is disabled in that step and one
\* re-enable is queued for the next animation frame; the controller stays
\* disabled until that frame, which enables it again.
Thm_C20 ==
    /\ [][LeavesActiveMidGesture =>
             (~controlsEnabled' /\ rafQueue' = Append(rafQueue, 0))]_vars
    /\ []((stageMounted /\ rafQueue # <<>>) => ~controlsEnabled)
    /\ [][(stageMounted' /\ rafQueue # <<>> /\ rafQueue' = <<>>) => controlsEnabled']_vars

\* The app went to the background during a gesture whose timer has not
\* fired: the controller is disabled and its re-enable waits for the frame.
Wit_C20 ==
    /\ stageMounted
    /\ notified = "start"
    /\ appState = "background"
    /\ ~wdFired
    /\ elapsed < WatchdogTicks
    /\ ~controlsEnabled
    /\ rafQueue = <<0>>

\* This step is one frame of the Stage.
IsFrame == frames' = frames + 1

\* C21: while auto-rotate is enabled every frame adds the turntable
\* increment to the target yaw, and with no gesture input the displayed yaw
\* advances by that increment in every frame.
Cex_C21 ==
    [][(IsFrame /\ autoRotate /\ drags = 0) =>
          /\ rotationY' = rotationY + turntable(TRUE)
          /\ groupYaw' = groupYaw + turntable(TRUE)]_vars

\* C22: a gesture-begin sets the drag base to the displayed (damped) yaw of
\* that moment, and a gesture-end or cancel sets it to the displayed yaw
\* again.
Cex_C22 ==
    [][/\ (gestureState # "BEGAN" /\ gestureState' = "BEGAN") => dragBase' = groupYaw
       /\ (gestureState \in {"BEGAN", "ACTIVE"} /\ gestureState' \in {"END", "CANCELLED"})
             => dragBase' = groupYaw]_vars

\* The remaining difference: target yaw minus displayed yaw.
Remaining == rotationY - groupYaw

Abs(x) == IF x >= 0 THEN x ELSE -x

\* C23: with auto-rotate off, a frame moves the displayed yaw toward the
\* target by 0.15 of the remaining difference (rounded toward zero, to one
\* unit): the difference keeps its sign, its magnitude does not grow, and
\* the displayed yaw does not pass the target.
Thm_C23 ==
    [][(IsFrame /\ ~autoRotate) =>
          /\ Remaining > 0 => (Remaining' > 0 /\ groupYaw' >= groupYaw)
          /\ Remaining < 0 => (Remaining' < 0 /\ groupYaw' <= groupYaw)
          /\ Remaining = 0 => Remaining' = 0
          /\ Abs(Remaining') <= Abs(Remaining)
          /\ Abs(100 * (groupYaw' - groupYaw) - DampPercent * Remaining) < 100]_vars

\* A drag moved the target by two steps and, with auto-rotate off since the
\* begin, frames have carried the displayed yaw part of the way.
Wit_C23 ==
    /\ drags >= 1
    /\ ~toggled
    /\ ~autoRotate
    /\ moved
    /\ lastDx = MaxDxSteps * DxStep
    /\ frames >= 1
    /\ groupYaw > 2 * turntable(TRUE)
    /\ groupYaw < rotationY

\* The passes that share the platform's surface: rune glow, rim highlight
\* and radial falloff.
SurfaceOverlays == {pass \in scenePasses : pass.overlay}

\* C24: any two passes that share the platform's surface have distinct
\* renderOrder values and polygon offsets that differ.
Cex_C24 ==
    \A a, b \in SurfaceOverlays :
        a # b =>
            /\ a.renderOrder # b.renderOrder
            /\ (a.factor # b.factor \/ a.units # b.units)

\* Some prototype is marked patched.
SomeMarked == \E i \in CtorIds : protoMarked[i]

\* C30: every retry loop makes at most 10 timed attempts; each timed attempt
\* counts, and it ends the loop exactly when it finds a patched or patchable
\* prototype or is the tenth; a prototype is wrapped at most once and a
\* marked prototype is never wrapped again, whatever the number of attempts
\* and of loops.
Thm_C30 ==
    /\ [](\A l \in Loads :
             /\ attempts[l] <= MaxAttempts
             /\ loopPc[l] = "running" => attempts[l] < MaxAttempts)
    /\ [](\A i \in CtorIds : protoWraps[i] <= 1 /\ (protoWraps[i] = 1 <=> protoMarked[i]))
    /\ [][\A l \in Loads :
             /\ loopPc[l] = "stopped" => (loopPc'[l] = "stopped" /\ attempts'[l] = attempts[l])
             /\ attempts'[l] # attempts[l] =>
                   /\ attempts'[l] = attempts[l] + 1
                   /\ loopPc'[l] = "stopped" <=> (SomeMarked' \/ attempts'[l] = MaxAttempts)
             /\ \A i \in CtorIds : protoMarked[i] => protoWraps'[i] = protoWraps[i]]_vars

\* One loop gave up after ten attempts; the other, started later, stopped
\* at the attempt that found a constructor that had appeared meanwhile, and
\* wrapped its prototype once.
Wit_C30 ==
    /\ loopPc[1] = "stopped"
    /\ attempts[1] = MaxAttempts
    /\ loopPc[2] = "stopped"
    /\ attempts[2] >= 2
    /\ attempts[2] < MaxAttempts
    /\ protoWraps[1] = 1
    /\ protoWraps[2] = 0

\* C25: at most one watchdog timer is pending at any time, and it is the
\* one of the latest gesture-begin, whose handle dragTimer holds: a begin
\* cancels the timer of the previous begin before arming its own, so a
\* begin-begin sequence fires at most once.
Thm_C25 ==
    /\ Cardinality(timers) <= 1
    /\ \A t \in timers : t.id = gestures /\ t.id = dragTimer
    /\ wdDisables <= 1

\* Two begins, and more than 2.5 s after the second one timer has fired,
\* once, and none is pending.
Wit_C25 ==
    /\ stageMounted
    /\ gestures >= 2
    /\ notified = "start"
    /\ elapsed > WatchdogTicks
    /\ wdFired
    /\ wdDisables = 1
    /\ timers = {}

\* C26: while the Stage stays mounted and animation frames keep being
\* delivered, every state in which a watchdog recovery has left the
\* controller disabled is followed by a state in which it is enabled again
\* (or the Stage has unmounted), also when recoveries of a timeout and of
\* an app-state change overlap.
Thm_C26 ==
    (stageMounted /\ ~controlsEnabled) ~> (controlsEnabled \/ ~stageMounted)

\* The recoveries of the timeout and of an app-state change overlap: both
\* re-enables wait for the same frame and the controller is disabled.
Wit_C26 ==
    /\ stageMounted
    /\ ~controlsEnabled
    /\ wdFired
    /\ Len(rafQueue) = 2
    /\ CountIn(rafQueue, 0) = 1
    /\ CountIn(rafQueue, gestures) = 1

\* C27: once the Stage has unmounted, no timer is pending, the app-state
\* listener is removed and the controller reference is gone, and no step
\* changes the controller's enabled flag, not even a frame callback that
\* was requested before the unmount.
Thm_C27 ==
    /\ [](~stageMounted => (timers = {} /\ ~subscribed /\ ~controlsCurrent))
    /\ [][~stageMounted => controlsEnabled' = controlsEnabled]_vars

\* The Stage unmounted while disabled by a recovery; the frame callback
\* requested before the unmount has run and left the controller alone.
Wit_C27 ==
    /\ ~stageMounted
    /\ appState = "background"
    /\ gestures > 0
    /\ ~controlsEnabled
    /\ rafQueue = <<>>

\* C28: running CharacterInner's effect again on a scene it has already
\* normalized leaves the scene where the earlier run put it: the offset of
\* the earlier run is not applied a second time.
Cex_C28 ==
    [][\A u \in Locators :
          (effectRuns[u] >= 1 /\ effectRuns'[u] = effectRuns[u] + 1)
              => posY'[u] = posY[u]]_vars

\* The entries of the layers reached by the last call that are the
\* original pixelStorei.
NativeEntries == {i \in 1..Len(reached) : reached[i].layer = "native"}

\* C29: with a createContextAsync override and the Canvas onCreated patch
\* both on one context, a pixelStorei call with a parameter outside both
\* unsupported sets reaches the original pixelStorei exactly once, with the
\* same (pname, param); a call with a parameter in either set does not
\* reach it.
Thm_C29 ==
    (/\ lastCall # NoCall
     /\ reached[1].layer = "canvas"
     /\ \E i \in 1..Len(wrappers) : wrappers[i] = "override") =>
        IF lastCall.pname \in CanvasUnsupported(ctxConstants) \cup OverrideUnsupported
        THEN NativeEntries = {}
        ELSE /\ Cardinality(NativeEntries) = 1
             /\ \A i \in NativeEntries :
                   reached[i].pname = lastCall.pname /\ reached[i].param = lastCall.param

\* UNPACK_ALIGNMENT went through the Canvas patch and the override to the
\* original pixelStorei.
Wit_C29 ==
    /\ wrappers = <<"canvas", "override">>
    /\ lastCall.pname = UNPACK_ALIGNMENT
    /\ lastCall.param > 0
    /\ Len(reached) >= 3
    /\ reached[1].layer = "canvas"
    /\ reached[2].layer = "override"
    /\ reached[Len(reached)].layer = "native"
    /\ reached[Len(reached)].param = lastCall.param

====
